---- MODULE Spec2Model ----
(***************************************************************************)
(* Fee step of the permit application wizard (ApplicationFeeStep.tsx).     *)
(*                                                                         *)
(* The component is modelled as a state machine: the application draft     *)
(* (prop `data`, owned by the parent and updated through `onChange`), the  *)
(* component's own React state, and the asynchronous fee lookups that are  *)
(* still in flight.  Money is kept in minor units (1 kina = 100 toea).     *)
(* The hook useFeeCalculation is not part of the sources; its validator    *)
(* and resolver are modelled from the specification (sections 4.1-4.3).    *)
(* The review step (ReviewSubmitStep.tsx) is modelled from the draft it is *)
(* entered with: its completeness check and its two declarations.          *)
(* The landing page (Index.tsx) is modelled with the authentication        *)
(* context as its environment, and the document warehouse picker           *)
(* (DocumentWarehousePicker) with its dialog, its selection and the upload *)
(* that may still be running.                                              *)
(***************************************************************************)
EXTENDS Integers, Sequences, FiniteSets, TLC

VARIABLES
    data,               \* the application draft handed to the step as a prop
    mounted,            \* is the fee step currently mounted
    calculatedFees,     \* useState: the breakdown shown by the step
    calculationError,   \* useState: error handed to FeeCalculationCard
    validationErrors,   \* useState: the validator's error list
    hasCalculatedOnce,  \* useRef
    loading,            \* useFeeCalculation().loading of the current mount
    inflight,           \* pending calculateFeesWithSupabase calls
    onChangeTick,       \* flips at every onChange call
    lastPayload,        \* argument of the last onChange call
    afterCalculation,   \* history: what the last calculation of this mount left
    lastLookup,         \* history: the last lookup that resolved with a breakdown
    entityInfo,         \* ReviewSubmitStep useState: the entity's contact details
    authLoading,        \* useAuth().loading
    profile,            \* useAuth().profile
    location,           \* the route the router shows
    navigated,          \* routes the redirect effect navigated to since Index mounted
    open,               \* picker prop `open`, the parent's state
    multiSelect,        \* picker prop `multiSelect`
    selectedCategory,   \* picker useState
    searchQuery,        \* picker useState
    selectedDocuments,  \* picker useState
    isUploading,        \* picker useState
    uploading,          \* the handleFileUpload call that has not returned
    warehouse,          \* rows of the `documents` table
    documents,          \* useQuery data: the rows the picker lists
    onSelectCalls,      \* onSelect calls since the dialog was last opened
    lastSelected        \* argument of the last of these calls

vars == <<data, mounted, calculatedFees, calculationError,
          validationErrors, hasCalculatedOnce, loading, inflight,
          onChangeTick, lastPayload, afterCalculation, lastLookup,
          entityInfo,
          authLoading, profile, location, navigated,
          open, multiSelect, selectedCategory, searchQuery, selectedDocuments,
          isUploading, uploading, warehouse, documents, onSelectCalls,
          lastSelected>>

\* the wizard's state
wizardVars == <<data, mounted, calculatedFees, calculationError,
                validationErrors, hasCalculatedOnce, loading, inflight,
                onChangeTick, lastPayload, afterCalculation, lastLookup,
                entityInfo>>

\* the landing page's state
indexVars == <<authLoading, profile, location, navigated>>

\* the document picker's state
pickerVars == <<open, multiSelect, selectedCategory, searchQuery,
                selectedDocuments, isUploading, uploading, warehouse,
                documents, onSelectCalls, lastSelected>>

----------------------------------------------------------------------------
(* Bounds of the model *)

\* calls of calculateFeesWithSupabase that may be pending at the same time
MaxInflight == 2

\* files the user uploads to the warehouse through the picker, in total
MaxUploads == 2

----------------------------------------------------------------------------
(* JavaScript values *)

\* null / undefined of an object-valued slot
NULL == [null |-> TRUE]

\* Strings that are inspected character by character are tuples of
\* one-character strings; `undefined` is a tuple no such string can equal.
Undefined == <<"undefined">>

UpperCaseLetters == <<"A","B","C","D","E","F","G","H","I","J","K","L","M",
                      "N","O","P","Q","R","S","T","U","V","W","X","Y","Z">>
LowerCaseLetters == <<"a","b","c","d","e","f","g","h","i","j","k","l","m",
                      "n","o","p","q","r","s","t","u","v","w","x","y","z">>

LowerChar(c) ==
    IF \E i \in 1..26 : UpperCaseLetters[i] = c
    THEN LowerCaseLetters[CHOOSE i \in 1..26 : UpperCaseLetters[i] = c]
    ELSE c

\* String.prototype.toLowerCase
ToLowerCase(s) == [i \in 1..Len(s) |-> LowerChar(s[i])]

\* { ...obj, ...overrides }
Spread(obj, overrides) ==
    [k \in (DOMAIN obj) \cup (DOMAIN overrides) |->
        IF k \in DOMAIN overrides THEN overrides[k] ELSE obj[k]]

Has(obj, k) == k \in DOMAIN obj

----------------------------------------------------------------------------
(* Values the draft can hold *)

str_environmental == <<"e","n","v","i","r","o","n","m","e","n","t","a","l">>
str_Environmental == <<"E","n","v","i","r","o","n","m","e","n","t","a","l">>
str_mining        == <<"m","i","n","i","n","g">>

PermitTypes == {Undefined, str_environmental, str_Environmental, str_mining}

ENVIRONMENTAL_PERMIT_TYPE_ID == "1655df4b-bfcf-47de-85fa-c4567c749362"

PermitTypeIds == {"", ENVIRONMENTAL_PERMIT_TYPE_ID}

ActivityLevels == {"", "1", "Level 2", "2.1", "2.2", "2.3", "2.4", "3"}

Classification(level, category, subcategory, prescribed) ==
    [activity_level |-> level, activity_category |-> category,
     activity_subcategory |-> subcategory, prescribed_activity_id |-> prescribed]

\* classifications the applicant may enter
Classifications ==
    {Classification(level, "mining", "", "") : level \in ActivityLevels}
    \cup {Classification("3", "", "quarry", "pa-1"), Classification("2.2", "", "", "")}

----------------------------------------------------------------------------
(* The landing page and the document picker before anything happens *)

\* the application starts on the landing page while the session is restored
LandingPageLoading ==
    /\ authLoading = TRUE
    /\ profile = NULL
    /\ location = "/"
    /\ navigated = <<>>

\* the rows of the user's documents before the picker is opened
StoredDocuments ==
    {[id |-> 1, filename |-> <<"P", "l", "a", "n">>,
      document_type |-> "project_details"],
     [id |-> 2, filename |-> <<"e", "i", "a">>,
      document_type |-> "environmental_assessment"]}

\* the picker as its useState calls leave it, the dialog closed
PickerClosed(multi) ==
    /\ open = FALSE
    /\ multiSelect = multi
    /\ selectedCategory = "all"
    /\ searchQuery = <<>>
    /\ selectedDocuments = <<>>
    /\ isUploading = FALSE
    /\ uploading = NULL
    /\ warehouse = StoredDocuments
    /\ documents = {}
    /\ onSelectCalls = 0
    /\ lastSelected = <<>>

----------------------------------------------------------------------------
(* useFeeCalculation: validator and resolver, from the specification *)

ACTIVITY_LEVEL_REQUIRED == "Activity level is required"
ACTIVITY_TYPE_REQUIRED == "Activity type or sub-category is required"

\* validateParameters(params) -> {isValid, errors}            (spec 4.1)
ValidateParameters(params) ==
    LET e1 == IF params.activityLevel = "" THEN <<ACTIVITY_LEVEL_REQUIRED>>
              ELSE <<>>
        e2 == IF params.activityType = "" /\ params.activitySubCategory = ""
              THEN <<ACTIVITY_TYPE_REQUIRED>> ELSE <<>>
    IN [isValid |-> (e1 \o e2) = <<>>, errors |-> e1 \o e2]

DefaultProcessingDays == 90

\* statutory processing-day table                             (spec 4.2, step 4)
ProcessingDays(level) ==
    CASE level = "2.1" -> 30
      [] level \in {"2.2", "2.3", "2.4"} -> 60
      [] level = "3" -> 90
      [] OTHER -> DefaultProcessingDays

MinorUnitsPerKina == 100
DaysPerYear == 365

\* (annualRecurrentFee / 365) * processingDays, rounded half-up to 2 decimal
\* places; the annual fee is in kina, the result in minor units (spec 4.3)
ProratedFee(annualRecurrentFee, processingDays) ==
    (2 * annualRecurrentFee * MinorUnitsPerKina * processingDays + DaysPerYear)
        \div (2 * DaysPerYear)

NoRecord == -1
DefaultAnnualRecurrentFee == 5000

\* what the system of record may hold for a request: the annual recurrent
\* fee of the record keyed by the prescribed activity, and of the one keyed by
\* activity level and category
FeesByPrescribedActivity == {NoRecord, 0}
FeesByActivityLevel == {NoRecord, 36500}

\* resolve(request) -> FeeSchedule                            (spec 4.2, steps 1-3)
\* byId / byLevel: what the two lookups find (NoRecord on a miss)
ResolveSchedule(params, byId, byLevel) ==
    IF params.prescribedActivityId # "" /\ byId # NoRecord
    THEN [annualRecurrentFee |-> byId, source |-> "Database"]
    ELSE IF byLevel # NoRecord
    THEN [annualRecurrentFee |-> byLevel, source |-> "Database"]
    ELSE [annualRecurrentFee |-> DefaultAnnualRecurrentFee, source |-> "Default"]

\* what the two lookups of a request found: the one keyed by the prescribed
\* activity is made only when the request names one      (spec 4.2, steps 1-2)
Found(params, byId, byLevel) ==
    [byPrescribedActivity |-> IF params.prescribedActivityId # "" THEN byId
                              ELSE NoRecord,
     byActivityLevel |-> byLevel]

\* the breakdown calculateFeesWithSupabase resolves with: no composite fee yet,
\* no technical fee, so totalFee is the administration fee
CalculateFeesWithSupabase(params, byId, byLevel) ==
    LET schedule == ResolveSchedule(params, byId, byLevel)
        days == ProcessingDays(params.activityLevel)
        admin == ProratedFee(schedule.annualRecurrentFee, days)
    IN [administrationFee |-> admin,
        technicalFee |-> 0,
        totalFee |-> admin,
        processingDays |-> days,
        administrationForm |-> "administration-form",
        technicalForm |-> "technical-form",
        source |-> schedule.source]

\* messages of the errors a lookup may be rejected with
LookupErrorMessages == {"Failed to fetch"}

----------------------------------------------------------------------------
(* ApplicationFeeStep *)

COMPOSITE_FEE == 2000
CompositeFeeMinor == COMPOSITE_FEE * MinorUnitsPerKina

\* mutant: the display name is compared case-sensitively
MutIsEnvironmentalPermit(d) ==
    \/ (d.permit_type # Undefined /\ d.permit_type = str_environmental)
    \/ d.permit_type_id = ENVIRONMENTAL_PERMIT_TYPE_ID

\* const isEnvironmentalPermit = data.permit_type?.toLowerCase() === 'environmental'
\*                               || data.permit_type_id === '1655df4b-...'
IsEnvironmentalPermit(d) ==
    \/ (d.permit_type # Undefined /\ ToLowerCase(d.permit_type) = str_environmental)
    \/ d.permit_type_id = ENVIRONMENTAL_PERMIT_TYPE_ID

\* mutant: the activity level of the request is taken from the wrong field
MutBuildParams(d) ==
    [activityType |-> IF d.activity_category # "" THEN d.activity_category ELSE "new",
     activitySubCategory |-> IF d.activity_subcategory # "" THEN d.activity_subcategory
                             ELSE "general",
     permitType |-> d.activity_level,
     activityLevel |-> d.activity_category,
     prescribedActivityId |-> d.prescribed_activity_id]

\* the params object built by handleCalculateFees
BuildParams(d) ==
    [activityType |-> IF d.activity_category # "" THEN d.activity_category ELSE "new",
     activitySubCategory |-> IF d.activity_subcategory # "" THEN d.activity_subcategory
                             ELSE "general",
     permitType |-> d.activity_level,
     activityLevel |-> d.activity_level,
     prescribedActivityId |-> d.prescribed_activity_id]

\* mutant: the composite fee is charged for every permit type
MutUpdatedFees(fees, isEnv) ==
    LET compositeFeeAmount == CompositeFeeMinor
        totalWithComposite == fees.totalFee + compositeFeeAmount
    IN Spread(fees, [compositeFee |-> compositeFeeAmount,
                     totalFee |-> totalWithComposite])

\* mutant: the composite fee is added on top of the one computed earlier
MutUpdatedFeesAccumulating(fees, isEnv) ==
    LET compositeFeeAmount ==
            (IF isEnv THEN CompositeFeeMinor ELSE 0)
            + (IF data.calculatedFees # NULL THEN data.calculatedFees.compositeFee
               ELSE 0)
        totalWithComposite == fees.totalFee + compositeFeeAmount
    IN Spread(fees, [compositeFee |-> compositeFeeAmount,
                     totalFee |-> totalWithComposite])

\* updatedFees of handleCalculateFees: { ...fees, compositeFee, totalFee }
UpdatedFees(fees, isEnv) ==
    LET compositeFeeAmount == IF isEnv THEN CompositeFeeMinor ELSE 0
        totalWithComposite == fees.totalFee + compositeFeeAmount
    IN Spread(fees, [compositeFee |-> compositeFeeAmount,
                     totalFee |-> totalWithComposite])

\* mutant: the administration fee handed to the parent includes the composite fee
MutCalculatePayloadAdministration(fees, isEnv) ==
    LET updatedFees == UpdatedFees(fees, isEnv)
    IN [administration_fee |-> updatedFees.totalFee,
        composite_fee |-> updatedFees.compositeFee,
        technical_fee |-> 0,
        total_fee |-> updatedFees.totalFee,
        fee_amount |-> updatedFees.totalFee,
        processing_days |-> fees.processingDays,
        administration_form |-> fees.administrationForm,
        technical_form |-> fees.technicalForm,
        fee_source |-> fees.source,
        calculatedFees |-> updatedFees,
        fee_breakdown |-> updatedFees]

\* mutant: the total handed to the parent leaves the composite fee out
MutCalculatePayloadTotal(fees, isEnv) ==
    LET updatedFees == UpdatedFees(fees, isEnv)
    IN [administration_fee |-> fees.totalFee,
        composite_fee |-> updatedFees.compositeFee,
        technical_fee |-> 0,
        total_fee |-> fees.totalFee,
        fee_amount |-> fees.totalFee,
        processing_days |-> fees.processingDays,
        administration_form |-> fees.administrationForm,
        technical_form |-> fees.technicalForm,
        fee_source |-> fees.source,
        calculatedFees |-> updatedFees,
        fee_breakdown |-> updatedFees]

\* mutant: the source handed to the parent is always the system of record
MutCalculatePayloadSource(fees, isEnv) ==
    LET updatedFees == UpdatedFees(fees, isEnv)
    IN [administration_fee |-> fees.totalFee,
        composite_fee |-> updatedFees.compositeFee,
        technical_fee |-> 0,
        total_fee |-> updatedFees.totalFee,
        fee_amount |-> updatedFees.totalFee,
        processing_days |-> fees.processingDays,
        administration_form |-> fees.administrationForm,
        technical_form |-> fees.technicalForm,
        fee_source |-> "Database",
        calculatedFees |-> updatedFees,
        fee_breakdown |-> updatedFees]

\* the onChange payload of handleCalculateFees
CalculatePayload(fees, isEnv) ==
    LET updatedFees == UpdatedFees(fees, isEnv)
    IN [administration_fee |-> fees.totalFee,
        composite_fee |-> updatedFees.compositeFee,
        technical_fee |-> 0,
        total_fee |-> updatedFees.totalFee,
        fee_amount |-> updatedFees.totalFee,
        processing_days |-> fees.processingDays,
        administration_form |-> fees.administrationForm,
        technical_form |-> fees.technicalForm,
        fee_source |-> fees.source,
        calculatedFees |-> updatedFees,
        fee_breakdown |-> updatedFees]

\* mutant: the effect adds the composite fee to the previous total
MutRecalculatedFees(current, isEnv) ==
    LET compositeFeeAmount == IF isEnv THEN CompositeFeeMinor ELSE 0
        baseFee == current.totalFee
        totalWithComposite == baseFee + compositeFeeAmount
    IN Spread(current, [compositeFee |-> compositeFeeAmount,
                        totalFee |-> totalWithComposite])

\* mutant: leaving the Environmental category takes the composite fee off the
\* previous total
MutRecalculatedFeesRefund(current, isEnv) ==
    LET compositeFeeAmount == IF isEnv THEN CompositeFeeMinor ELSE 0
        baseFee == IF isEnv THEN current.administrationFee
                   ELSE current.totalFee - CompositeFeeMinor
        totalWithComposite == baseFee + compositeFeeAmount
    IN Spread(current, [compositeFee |-> compositeFeeAmount,
                        totalFee |-> totalWithComposite])

\* updatedFees of the permit-type effect
RecalculatedFees(current, isEnv) ==
    LET compositeFeeAmount == IF isEnv THEN CompositeFeeMinor ELSE 0
        baseFee == IF Has(current, "administrationFee")
                      /\ current.administrationFee # 0
                   THEN current.administrationFee ELSE 0
        totalWithComposite == baseFee + compositeFeeAmount
    IN Spread(current, [compositeFee |-> compositeFeeAmount,
                        totalFee |-> totalWithComposite])

\* mutant: the effect hands the whole set of flat fee fields to the parent again
MutRecalculatePayload(current, isEnv) ==
    LET updatedFees == RecalculatedFees(current, isEnv)
    IN [administration_fee |-> updatedFees.totalFee,
        composite_fee |-> updatedFees.compositeFee,
        total_fee |-> updatedFees.totalFee,
        fee_amount |-> updatedFees.totalFee,
        calculatedFees |-> updatedFees,
        fee_breakdown |-> updatedFees]

\* the onChange payload of the permit-type effect
RecalculatePayload(current, isEnv) ==
    LET updatedFees == RecalculatedFees(current, isEnv)
    IN [composite_fee |-> updatedFees.compositeFee,
        total_fee |-> updatedFees.totalFee,
        fee_amount |-> updatedFees.totalFee,
        calculatedFees |-> updatedFees,
        fee_breakdown |-> updatedFees]

\* mutant: the mount effect does not look at the breakdown cached in the draft
MutShouldAutoCalculate(d, calculatedOnce, isLoading) ==
    /\ d.activity_level # ""
    /\ (d.activity_category # "" \/ d.activity_subcategory # "")
    /\ ~ calculatedOnce
    /\ ~ isLoading

\* the mount effect's condition
ShouldAutoCalculate(d, calculatedOnce, isLoading) ==
    /\ d.activity_level # ""
    /\ (d.activity_category # "" \/ d.activity_subcategory # "")
    /\ ~ calculatedOnce
    /\ ~ isLoading
    /\ d.calculatedFees = NULL

\* a fresh component instance: useState / useRef initial values
FreshCalculatedFees(d) == IF d.calculatedFees # NULL THEN d.calculatedFees ELSE NULL

\* onChange(payload): the parent merges the payload into the draft
OnChange(draft, payload) ==
    /\ data' = Spread(draft, payload)
    /\ onChangeTick' = ~ onChangeTick
    /\ lastPayload' = payload

NoOnChange(draft) ==
    /\ data' = draft
    /\ UNCHANGED <<onChangeTick, lastPayload>>

\* the error list the render shows: FeeCalculationCard gets error={calculationError}
ShownErrors == IF calculationError = "" THEN <<>> ELSE <<calculationError>>

\* are two pending calls alike: same instance state, same request, same closure
Alike(c1, c2) ==
    /\ c1.current = c2.current
    /\ c1.params = c2.params
    /\ c1.isEnvironmentalPermit = c2.isEnvironmentalPermit

\* a pending call of calculateFeesWithSupabase made by the mounted instance in
\* a render that saw the draft d; `call` numbers the pending calls that are
\* otherwise alike
PendingCall(d, params) ==
    LET call == [call |-> 0, current |-> TRUE, params |-> params,
                 isEnvironmentalPermit |-> IsEnvironmentalPermit(d)]
    IN [call EXCEPT !.call = Cardinality({c \in inflight : Alike(c, call)}) + 1]

\* mutant: the lookup is started before the validation verdict is looked at
MutHandleCalculateFees(d) ==
    LET params == BuildParams(d)
        validation == ValidateParameters(params)
    IN /\ calculationError' = ""
       /\ validationErrors' = validation.errors
       /\ Cardinality(inflight) < MaxInflight
       /\ loading' = TRUE
       /\ inflight' = inflight \cup {PendingCall(d, params)}

\* handleCalculateFees up to its await, called in a render that saw the draft d
HandleCalculateFees(d) ==
    LET params == BuildParams(d)
        validation == ValidateParameters(params)
    IN /\ calculationError' = ""
       /\ IF ~ validation.isValid
          THEN /\ validationErrors' = validation.errors
               /\ UNCHANGED <<inflight, loading>>
          ELSE /\ validationErrors' = <<>>
               /\ Cardinality(inflight) < MaxInflight
               /\ loading' = TRUE
               /\ inflight' = inflight \cup {PendingCall(d, params)}

\* the wizard is not open
WizardNotStarted ==
    /\ data = [activity_level |-> "", activity_category |-> "",
               activity_subcategory |-> "", prescribed_activity_id |-> "",
               permit_type |-> Undefined, permit_type_id |-> "",
               calculatedFees |-> NULL]
    /\ mounted = FALSE
    /\ calculatedFees = NULL
    /\ calculationError = ""
    /\ validationErrors = <<>>
    /\ hasCalculatedOnce = FALSE
    /\ loading = FALSE
    /\ inflight = {}
    /\ onChangeTick = FALSE
    /\ lastPayload = NULL
    /\ afterCalculation = NULL
    /\ lastLookup = NULL
    /\ entityInfo = NULL

Init ==
    /\ WizardNotStarted
    /\ LandingPageLoading
    /\ PickerClosed(TRUE)

\* the applicant fills in the classification (another step of the wizard);
\* the model lets it change until a fee calculation has been asked for
EditClassification ==
    \E c \in Classifications :
        /\ inflight = {}
        /\ data.calculatedFees = NULL
        /\ calculatedFees = NULL
        /\ data' = Spread(data, c)
        /\ data' # data
        /\ UNCHANGED <<mounted, calculatedFees, calculationError,
                       validationErrors, hasCalculatedOnce, loading, inflight,
                       onChangeTick, lastPayload, afterCalculation, lastLookup, entityInfo, indexVars, pickerVars>>

\* first render and mount effects, the auto-calculation does not start
MountIdle ==
    /\ ~ mounted
    /\ ~ ShouldAutoCalculate(data, FALSE, FALSE)
    /\ mounted' = TRUE
    /\ calculatedFees' = FreshCalculatedFees(data)
    /\ calculationError' = ""
    /\ validationErrors' = <<>>
    /\ hasCalculatedOnce' = FALSE
    /\ loading' = FALSE
    /\ afterCalculation' = NULL
    /\ UNCHANGED <<data, inflight, onChangeTick, lastPayload, lastLookup, entityInfo, indexVars, pickerVars>>

\* first render and mount effects, the mount effect calls handleCalculateFees
MountAndCalculate ==
    /\ ~ mounted
    /\ ShouldAutoCalculate(data, FALSE, FALSE)
    /\ mounted' = TRUE
    /\ calculatedFees' = FreshCalculatedFees(data)
    /\ hasCalculatedOnce' = FALSE
    /\ HandleCalculateFees(data)
    /\ afterCalculation' = NULL
    /\ UNCHANGED <<data, onChangeTick, lastPayload, lastLookup, entityInfo, indexVars, pickerVars>>

\* a pending call of the instance that is being dropped, numbered after the
\* abandoned calls it is now alike
Abandoned(c) ==
    LET stale == [c EXCEPT !.current = FALSE]
    IN [stale EXCEPT !.call =
            c.call + Cardinality({p \in inflight : Alike(p, stale)})]

\* the step is left: the component instance and its state are dropped, the
\* calls it made stay pending
Unmount ==
    /\ mounted
    /\ mounted' = FALSE
    /\ calculatedFees' = NULL
    /\ calculationError' = ""
    /\ validationErrors' = <<>>
    /\ hasCalculatedOnce' = FALSE
    /\ loading' = FALSE
    /\ afterCalculation' = NULL
    /\ inflight' = {c \in inflight : ~ c.current}
                    \cup {Abandoned(c) : c \in {p \in inflight : p.current}}
    /\ UNCHANGED <<data, onChangeTick, lastPayload, lastLookup, entityInfo, indexVars, pickerVars>>

\* is the instance that started call c still the mounted one
IsCurrent(c) == mounted /\ c.current

\* the pending calls that may come back next: of calls that are alike, the
\* one made last
Returning == {c \in inflight : \A p \in inflight : Alike(p, c) => p.call <= c.call}

\* was the run recorded in `previous` made with the request of call c and
\* against a system of record that held the same
SameRun(previous, c, found) ==
    /\ previous # NULL
    /\ previous.params = c.params
    /\ previous.isEnvironmentalPermit = c.isEnvironmentalPermit
    /\ previous.found = found

\* `await calculateFeesWithSupabase(params)` resolves with a breakdown
LookupResolves ==
    \E c \in Returning, byId \in FeesByPrescribedActivity,
       byLevel \in FeesByActivityLevel :
        LET fees == CalculateFeesWithSupabase(c.params, byId, byLevel)
        IN /\ inflight' = inflight \ {c}
           /\ IF IsCurrent(c)
              THEN /\ calculatedFees' = UpdatedFees(fees, c.isEnvironmentalPermit)
                   /\ hasCalculatedOnce' = TRUE
                   /\ loading' = FALSE
                   /\ afterCalculation' =
                         [fees |-> UpdatedFees(fees, c.isEnvironmentalPermit),
                          isEnvironmentalPermit |-> IsEnvironmentalPermit(data)]
              ELSE UNCHANGED <<calculatedFees, hasCalculatedOnce, loading,
                               afterCalculation>>
           /\ OnChange(data, CalculatePayload(fees, c.isEnvironmentalPermit))
           /\ lastLookup' = [params |-> c.params,
                             isEnvironmentalPermit |-> c.isEnvironmentalPermit,
                             found |-> Found(c.params, byId, byLevel),
                             schedule |-> ResolveSchedule(c.params, byId, byLevel),
                             repeats |-> SameRun(lastLookup, c, Found(c.params, byId, byLevel)),
                             payload |-> CalculatePayload(fees, c.isEnvironmentalPermit)]
           /\ UNCHANGED <<mounted, calculationError, validationErrors, entityInfo, indexVars, pickerVars>>

\* it resolves with no result: `if (fees)` is skipped
LookupResolvesEmpty ==
    \E c \in Returning :
        /\ inflight' = inflight \ {c}
        /\ loading' = IF IsCurrent(c) THEN FALSE ELSE loading
        /\ UNCHANGED <<data, mounted, calculatedFees, calculationError,
                       validationErrors, hasCalculatedOnce, onChangeTick,
                       lastPayload, afterCalculation, lastLookup, entityInfo, indexVars, pickerVars>>

\* mutant: the catch block also marks the calculation as done
MutLookupRejects ==
    \E c \in Returning, message \in LookupErrorMessages :
        /\ inflight' = inflight \ {c}
        /\ loading' = IF IsCurrent(c) THEN FALSE ELSE loading
        /\ calculationError' = IF IsCurrent(c) THEN message ELSE calculationError
        /\ hasCalculatedOnce' = IF IsCurrent(c) THEN TRUE ELSE hasCalculatedOnce
        /\ UNCHANGED <<data, mounted, calculatedFees, validationErrors,
                       onChangeTick, lastPayload, afterCalculation, lastLookup,
                       entityInfo, indexVars, pickerVars>>

\* it rejects: the catch block
LookupRejects ==
    \E c \in Returning, message \in LookupErrorMessages :
        /\ inflight' = inflight \ {c}
        /\ loading' = IF IsCurrent(c) THEN FALSE ELSE loading
        /\ calculationError' = IF IsCurrent(c) THEN message ELSE calculationError
        /\ UNCHANGED <<data, mounted, calculatedFees, validationErrors,
                       hasCalculatedOnce, onChangeTick, lastPayload,
                       afterCalculation, lastLookup, entityInfo, indexVars, pickerVars>>

\* the draft after the permit type was set to (permitType, permitTypeId)
WithPermitType(permitType, permitTypeId) ==
    [data EXCEPT !.permit_type = permitType, !.permit_type_id = permitTypeId]

\* does the permit-type effect run its body in the render that sees draft d
PermitTypeEffectRuns(d) ==
    /\ mounted
    /\ IsEnvironmentalPermit(d) # IsEnvironmentalPermit(data)
    /\ hasCalculatedOnce
    /\ calculatedFees # NULL

\* the permit type changes and the permit-type effect has nothing to do
ChangePermitType ==
    \E permitType \in PermitTypes, permitTypeId \in PermitTypeIds :
        LET d == WithPermitType(permitType, permitTypeId)
        IN /\ d # data
           /\ ~ PermitTypeEffectRuns(d)
           /\ NoOnChange(d)
           /\ UNCHANGED <<mounted, calculatedFees, calculationError,
                          validationErrors, hasCalculatedOnce, loading, inflight,
                          afterCalculation, lastLookup, entityInfo, indexVars, pickerVars>>

\* the permit type changes and the permit-type effect recalculates
ChangePermitTypeRecalculate ==
    \E permitType \in PermitTypes, permitTypeId \in PermitTypeIds :
        LET d == WithPermitType(permitType, permitTypeId)
            isEnv == IsEnvironmentalPermit(d)
        IN /\ PermitTypeEffectRuns(d)
           /\ calculatedFees' = RecalculatedFees(calculatedFees, isEnv)
           /\ OnChange(d, RecalculatePayload(calculatedFees, isEnv))
           /\ UNCHANGED <<mounted, calculationError, validationErrors,
                          hasCalculatedOnce, loading, inflight, afterCalculation,
                          lastLookup, entityInfo, indexVars, pickerVars>>

Next ==
    \/ EditClassification
    \/ MountIdle
    \/ MountAndCalculate
    \/ Unmount
    \/ LookupResolves
    \/ LookupRejects
    \/ LookupResolvesEmpty
    \/ ChangePermitType
    \/ ChangePermitTypeRecalculate

Spec == Init /\ [][Next]_vars

\* handleCalculateFees called on its own by the mounted step, whatever the
\* classification of the draft, as long as the draft holds no breakdown and
\* no calculation is loading
CalculateFees ==
    /\ mounted
    /\ data.calculatedFees = NULL
    /\ ~ loading
    /\ HandleCalculateFees(data)
    /\ UNCHANGED <<data, mounted, calculatedFees, hasCalculatedOnce,
                   onChangeTick, lastPayload, afterCalculation, lastLookup, entityInfo, indexVars, pickerVars>>

NextHandler == Next \/ CalculateFees

SpecHandler == Init /\ [][NextHandler]_vars

----------------------------------------------------------------------------
(* ReviewSubmitStep *)

\* d[k] of a draft that may not have the field yet (undefined reads as `absent`)
Field(d, k, absent) == IF Has(d, k) THEN d[k] ELSE absent

\* the state of the fee step while another step of the wizard is shown
feeStepVars == <<mounted, calculatedFees, calculationError, validationErrors,
                 hasCalculatedOnce, loading, inflight, afterCalculation,
                 lastLookup>>

\* rows of the `entities` table the fetch may come back with
NoPhoneNumber == 0
ContactPersonPhone == 71234567

EntityInfos ==
    {[email |-> "entity@example.pg", phone |-> "3250180",
      contact_person_email |-> "", contact_person_phone |-> NoPhoneNumber],
     [email |-> "", phone |-> "",
      contact_person_email |-> "contact@example.pg",
      contact_person_phone |-> ContactPersonPhone],
     [email |-> "", phone |-> "",
      contact_person_email |-> "", contact_person_phone |-> NoPhoneNumber]}

\* String(contact_person_phone) for the numbers of EntityInfos
NumberToString(n) == IF n = ContactPersonPhone THEN "71234567" ELSE "0"

\* entityInfo?.email || entityInfo?.contact_person_email || null
EntityEmail(info) ==
    IF info = NULL THEN ""
    ELSE IF info.email # "" THEN info.email ELSE info.contact_person_email

\* entityInfo?.phone || (contact_person_phone ? String(contact_person_phone) : null)
EntityPhone(info) ==
    IF info = NULL THEN ""
    ELSE IF info.phone # "" THEN info.phone
    ELSE IF info.contact_person_phone # 0
         THEN NumberToString(info.contact_person_phone) ELSE ""

\* getAllDocuments(): general uploads, categorized uploads that hold a file,
\* consultation proof
GetAllDocuments(d) ==
    Field(d, "uploadedFiles", <<>>)
    \o SelectSeq(Field(d, "document_uploads", <<>>), LAMBDA file : file # "")
    \o Field(d, "public_consultation_proof", <<>>)

\* checkMandatoryFields(): the mandatory fields by section, each with the
\* truthiness of its value
CheckMandatoryFields(d, info) ==
    LET row(section, field, value) ==
            [section |-> section, field |-> field, value |-> value]
    IN {row("Basic Information", "applicationTitle",
            Field(d, "applicationTitle", "") # ""),
        row("Basic Information", "entity_name",
            Field(d, "entity_name", "") # ""
                \/ Field(d, "organizationName", "") # ""),
        row("Basic Information", "entityEmail", EntityEmail(info) # ""),
        row("Basic Information", "entityPhone", EntityPhone(info) # ""),
        row("Activity Classification", "activity_level", d.activity_level # ""),
        row("Activity Classification", "permit_type",
            d.permit_type # Undefined /\ d.permit_type # <<>>),
        row("Project Details", "projectDescription",
            Field(d, "projectDescription", "") # ""),
        row("Project Details", "projectStartDate",
            Field(d, "projectStartDate", "") # ""),
        row("Location", "projectLocation", Field(d, "projectLocation", "") # ""),
        row("Documents", "documents", Len(GetAllDocuments(d)) > 0)}
       \cup
       (IF d.activity_level \in {"Level 2", "Level 3"}
        THEN {row("Public Consultation", "consultation_period_start",
                  Field(d, "consultation_period_start", "") # ""),
              row("Public Consultation", "consultation_period_end",
                  Field(d, "consultation_period_end", "") # ""),
              row("Public Consultation", "public_consultation_proof",
                  Len(Field(d, "public_consultation_proof", <<>>)) > 0)}
        ELSE {})

AllSectionsComplete(d, info) ==
    \A field \in CheckMandatoryFields(d, info) : field.value

\* mutant: the status does not look at the compliance commitment
MutSubmissionStatus(d, info) ==
    IF /\ AllSectionsComplete(d, info)
       /\ Field(d, "legal_declaration_accepted", FALSE)
    THEN "Ready for Submission"
    ELSE "Application Incomplete"

\* the submission status card
SubmissionStatus(d, info) ==
    IF /\ AllSectionsComplete(d, info)
       /\ Field(d, "legal_declaration_accepted", FALSE)
       /\ Field(d, "compliance_commitment", FALSE)
    THEN "Ready for Submission"
    ELSE "Application Incomplete"

\* new Date().toISOString() at the moments a declaration may be ticked
Instants == {[iso |-> "2026-01-05T09:00:00.000Z"], [iso |-> "2026-01-05T09:01:00.000Z"]}

\* what the other steps of the wizard may have put in the draft
ApplicationDetails ==
    [applicationTitle |-> "Quarry extension", entity_id |-> "entity-1",
     entity_name |-> "Example Ltd", projectDescription |-> "Extend the quarry",
     projectStartDate |-> "2026-03-01", projectLocation |-> "Central Province",
     uploadedFiles |-> <<"site-plan.pdf">>, document_uploads |-> <<"">>,
     consultation_period_start |-> "2026-01-10",
     consultation_period_end |-> "2026-02-10",
     public_consultation_proof |-> <<"public-notice.pdf">>]

\* the details with some of them left out
Without(fields) ==
    [k \in DOMAIN ApplicationDetails |->
        IF k \notin fields THEN ApplicationDetails[k]
        ELSE IF k \in {"uploadedFiles", "public_consultation_proof"} THEN <<>>
        ELSE ""]

\* the details an applicant may have left out
OptionalDetails ==
    {{}, {"applicationTitle"}, {"projectLocation"}, {"uploadedFiles"},
     {"consultation_period_end"}, {"public_consultation_proof"},
     {"uploadedFiles", "public_consultation_proof"}}

\* the classifications and permit types the review step is entered with
ReviewedClassifications ==
    {Classification("1", "mining", "", ""),
     Classification("Level 2", "mining", "", ""),
     Classification("2.2", "", "", "")}

ReviewedPermitTypes == {Undefined, str_mining, str_Environmental}

\* the draft as the fee step leaves it: without a breakdown when its
\* calculation did not run or failed, else with the payload of handleCalculateFees
FeeStepOutcomes(d) ==
    {d}
    \cup (IF ShouldAutoCalculate(d, FALSE, FALSE)
          THEN {Spread(d, CalculatePayload(
                           CalculateFeesWithSupabase(BuildParams(d), NoRecord, NoRecord),
                           IsEnvironmentalPermit(d)))}
          ELSE {})

\* the drafts the review step is entered with
ReviewDrafts ==
    UNION {FeeStepOutcomes(
               Spread(Spread([permit_type |-> permitType, permit_type_id |-> "",
                              calculatedFees |-> NULL], c),
                      Without(missing))) :
           c \in ReviewedClassifications, permitType \in ReviewedPermitTypes,
           missing \in OptionalDetails}

\* the wizard shows the review step; the fee step is not mounted
InitReview ==
    /\ data \in ReviewDrafts
    /\ mounted = FALSE
    /\ calculatedFees = NULL
    /\ calculationError = ""
    /\ validationErrors = <<>>
    /\ hasCalculatedOnce = FALSE
    /\ loading = FALSE
    /\ inflight = {}
    /\ onChangeTick = FALSE
    /\ lastPayload = NULL
    /\ afterCalculation = NULL
    /\ lastLookup = NULL
    /\ entityInfo = NULL
    /\ LandingPageLoading
    /\ PickerClosed(TRUE)

\* fetchEntityInfo comes back with a row: `if (!error && entity) setEntityInfo(entity)`
EntityInfoFetched ==
    \E entity \in EntityInfos :
        /\ Field(data, "entity_id", "") # ""
        /\ entityInfo' = entity
        /\ entityInfo' # entityInfo
        /\ UNCHANGED <<data, onChangeTick, lastPayload, indexVars, pickerVars>>
        /\ UNCHANGED feeStepVars

\* mutant: unticking the legal declaration keeps a timestamp
MutLegalDeclarationChange ==
    \E checked \in BOOLEAN, now \in Instants :
        /\ OnChange(data, [legal_declaration_accepted |-> checked,
                           legal_declaration_accepted_at |-> now])
        /\ UNCHANGED <<entityInfo, indexVars, pickerVars>>
        /\ UNCHANGED feeStepVars

\* handleLegalDeclarationChange(checked)
LegalDeclarationChange ==
    \E checked \in BOOLEAN, now \in Instants :
        /\ OnChange(data, [legal_declaration_accepted |-> checked,
                           legal_declaration_accepted_at |->
                               IF checked THEN now ELSE NULL])
        /\ UNCHANGED <<entityInfo, indexVars, pickerVars>>
        /\ UNCHANGED feeStepVars

\* handleComplianceCommitmentChange(checked)
ComplianceCommitmentChange ==
    \E checked \in BOOLEAN, now \in Instants :
        /\ OnChange(data, [compliance_commitment |-> checked,
                           compliance_commitment_accepted_at |->
                               IF checked THEN now ELSE NULL])
        /\ UNCHANGED <<entityInfo, indexVars, pickerVars>>
        /\ UNCHANGED feeStepVars

NextReview ==
    \/ EntityInfoFetched
    \/ LegalDeclarationChange
    \/ ComplianceCommitmentChange

SpecReview == InitReview /\ [][NextReview]_vars

----------------------------------------------------------------------------
(* Index: the landing page *)

\* profiles the authentication context may hand out; "" stands for a
\* staff_unit or staff_position that is null
UserTypes == {"super_admin", "admin", "public", "staff", "guest"}
StaffUnits == {"", "compliance", "registry", "revenue", "finance",
               "directorate", "legal"}
StaffPositions == {"", "officer", "manager", "director", "managing_director"}
Profiles == [user_type : UserTypes, staff_unit : StaffUnits,
             staff_position : StaffPositions]

\* mutant: the management of the directorate gets a dashboard of its own
MutRoute(p) ==
    LET isManagement == /\ p.staff_position # ""
                        /\ p.staff_position \in {"manager", "director", "managing_director"}
    IN IF p.user_type \in {"super_admin", "admin"} THEN "/admin"
       ELSE IF p.user_type = "public" THEN "/dashboard"
       ELSE IF p.user_type = "staff" /\ p.staff_unit # "" THEN
           CASE p.staff_unit = "compliance" ->
                    IF isManagement THEN "/ComplianceDashboard" ELSE "/compliance"
             [] p.staff_unit = "registry" ->
                    IF isManagement THEN "/RegistryDashboard" ELSE "/registry"
             [] p.staff_unit = "revenue" ->
                    IF isManagement THEN "/RevenueDashboard" ELSE "/revenue"
             [] p.staff_unit = "finance" ->
                    IF isManagement THEN "/FinanceDashboard" ELSE "/finance"
             [] p.staff_unit = "directorate" ->
                    IF isManagement THEN "/DirectorateDashboard" ELSE "/directorate"
             [] OTHER -> "/unauthorized"
       ELSE "/unauthorized"

\* the route the redirect effect picks for a profile
Route(p) ==
    LET isManagement == /\ p.staff_position # ""
                        /\ p.staff_position \in {"manager", "director", "managing_director"}
    IN IF p.user_type \in {"super_admin", "admin"} THEN "/admin"
       ELSE IF p.user_type = "public" THEN "/dashboard"
       ELSE IF p.user_type = "staff" /\ p.staff_unit # "" THEN
           CASE p.staff_unit = "compliance" ->
                    IF isManagement THEN "/ComplianceDashboard" ELSE "/compliance"
             [] p.staff_unit = "registry" ->
                    IF isManagement THEN "/RegistryDashboard" ELSE "/registry"
             [] p.staff_unit = "revenue" ->
                    IF isManagement THEN "/RevenueDashboard" ELSE "/revenue"
             [] p.staff_unit = "finance" ->
                    IF isManagement THEN "/FinanceDashboard" ELSE "/finance"
             [] p.staff_unit = "directorate" -> "/directorate"
             [] OTHER -> "/unauthorized"
       ELSE "/unauthorized"

\* the redirect effect, run after a render of the page with the given
\* loading flag and profile; `since` is what the page navigated to before
RedirectEffect(isLoading, p, since) ==
    IF isLoading \/ p = NULL
    THEN /\ navigated' = since
         /\ location' = "/"
    ELSE /\ navigated' = Append(since, Route(p))
         /\ location' = Route(p)

\* the authentication context hands out a profile (a session is restored,
\* the user signs in); the page, if shown, renders again and its effect runs
ProfileLoaded ==
    \E p \in Profiles :
        /\ profile = NULL
        /\ profile' = p
        /\ UNCHANGED authLoading
        /\ IF location = "/"
           THEN RedirectEffect(authLoading, p, navigated)
           ELSE UNCHANGED <<location, navigated>>
        /\ UNCHANGED <<wizardVars, pickerVars>>

\* the authentication context has finished loading
LoadingFinished ==
    /\ authLoading = TRUE
    /\ authLoading' = FALSE
    /\ UNCHANGED profile
    /\ IF location = "/"
       THEN RedirectEffect(FALSE, profile, navigated)
       ELSE UNCHANGED <<location, navigated>>
    /\ UNCHANGED <<wizardVars, pickerVars>>

\* the user signs out on another page
SignedOut ==
    /\ location # "/"
    /\ profile # NULL
    /\ profile' = NULL
    /\ UNCHANGED <<authLoading, location, navigated>>
    /\ UNCHANGED <<wizardVars, pickerVars>>

\* the buttons of the landing page: Sign In and Get Started
SignIn ==
    \E target \in {"/auth", "/auth?tab=signup"} :
        /\ location = "/"
        /\ ~ authLoading
        /\ profile = NULL
        /\ location' = target
        /\ UNCHANGED <<authLoading, profile, navigated>>
        /\ UNCHANGED <<wizardVars, pickerVars>>

\* the user comes back to the landing page: Index mounts and its effect runs
VisitIndex ==
    /\ location # "/"
    /\ UNCHANGED <<authLoading, profile>>
    /\ RedirectEffect(authLoading, profile, <<>>)
    /\ UNCHANGED <<wizardVars, pickerVars>>

NextIndex ==
    \/ ProfileLoaded
    \/ LoadingFinished
    \/ SignedOut
    \/ SignIn
    \/ VisitIndex

SpecIndex == Init /\ [][NextIndex]_vars

----------------------------------------------------------------------------
(* DocumentWarehousePicker *)

\* two of the entries of `categories`
Categories == {"all", "project_details"}

\* what the user types into the search box
SearchQueries == {<<>>, <<"P", "L">>}

\* String.prototype.includes
Includes(s, sub) ==
    \E i \in 0..(Len(s) - Len(sub)) : SubSeq(s, i + 1, i + Len(sub)) = sub

\* filteredDocuments, with the default acceptedTypes = []
FilteredDocuments ==
    {doc \in documents :
        /\ selectedCategory = "all" \/ doc.document_type = selectedCategory
        /\ Includes(ToLowerCase(doc.filename), ToLowerCase(searchQuery))}

\* the ids of a list of documents
Ids(docs) == {docs[i].id : i \in DOMAIN docs}

\* prev.filter(d => d.id !== id)
FilterOut(prev, id) ==
    LET Keep(d) == d.id # id IN SelectSeq(prev, Keep)

\* the selection after handleDocumentToggle(doc)
ToggledDocuments(prev, doc) ==
    IF multiSelect
    THEN IF \E i \in DOMAIN prev : prev[i].id = doc.id
         THEN FilterOut(prev, doc.id)
         ELSE Append(prev, doc)
    ELSE <<doc>>

\* the selection after the upload has auto-selected what it uploaded
AutoSelected(prev, uploadedDocs) ==
    IF Len(uploadedDocs) > 0
    THEN IF multiSelect THEN prev \o uploadedDocs ELSE <<uploadedDocs[1]>>
    ELSE prev

\* the files uploaded through the picker so far
Uploaded == Cardinality(warehouse) - Cardinality(StoredDocuments)

\* the parent opens the dialog
OpenPicker ==
    /\ ~ open
    /\ open' = TRUE
    /\ onSelectCalls' = 0
    /\ lastSelected' = <<>>
    /\ UNCHANGED <<multiSelect, selectedCategory, searchQuery, selectedDocuments,
                   isUploading, uploading, warehouse, documents>>
    /\ UNCHANGED <<wizardVars, indexVars>>

\* the query (enabled while the dialog is open) comes back with the rows
DocumentsFetched ==
    /\ open
    /\ documents # warehouse
    /\ documents' = warehouse
    /\ UNCHANGED <<open, multiSelect, selectedCategory, searchQuery,
                   selectedDocuments, isUploading, uploading, warehouse,
                   onSelectCalls, lastSelected>>
    /\ UNCHANGED <<wizardVars, indexVars>>

\* a click on a category of the sidebar
SelectCategory ==
    \E category \in Categories :
        /\ open
        /\ category # selectedCategory
        /\ selectedCategory' = category
        /\ UNCHANGED <<open, multiSelect, searchQuery, selectedDocuments,
                       isUploading, uploading, warehouse, documents,
                       onSelectCalls, lastSelected>>
        /\ UNCHANGED <<wizardVars, indexVars>>

\* typing into the search box
Search ==
    \E query \in SearchQueries :
        /\ open
        /\ query # searchQuery
        /\ searchQuery' = query
        /\ UNCHANGED <<open, multiSelect, selectedCategory, selectedDocuments,
                       isUploading, uploading, warehouse, documents,
                       onSelectCalls, lastSelected>>
        /\ UNCHANGED <<wizardVars, indexVars>>

\* handleDocumentToggle(doc)
HandleDocumentToggle(doc) ==
    /\ selectedDocuments' = ToggledDocuments(selectedDocuments, doc)
    /\ UNCHANGED <<open, multiSelect, selectedCategory, searchQuery,
                   isUploading, uploading, warehouse, documents, onSelectCalls,
                   lastSelected>>
    /\ UNCHANGED <<wizardVars, indexVars>>

\* a click on a document of the list
DocumentToggle ==
    \E doc \in FilteredDocuments :
        /\ open
        /\ HandleDocumentToggle(doc)

\* handleConfirm; the Attach button is disabled while nothing is selected
Confirm ==
    /\ open
    /\ Len(selectedDocuments) > 0
    /\ onSelectCalls' = onSelectCalls + 1
    /\ lastSelected' = selectedDocuments
    /\ selectedDocuments' = <<>>
    /\ open' = FALSE
    /\ UNCHANGED <<multiSelect, selectedCategory, searchQuery, isUploading,
                   uploading, warehouse, documents>>
    /\ UNCHANGED <<wizardVars, indexVars>>

\* handleClose: the Cancel button and the dialog's own close
Close ==
    /\ open
    /\ selectedDocuments' = <<>>
    /\ open' = FALSE
    /\ UNCHANGED <<multiSelect, selectedCategory, searchQuery, isUploading,
                   uploading, warehouse, documents, onSelectCalls, lastSelected>>
    /\ UNCHANGED <<wizardVars, indexVars>>

\* handleFileUpload up to its first await; the upload buttons are disabled
\* while isUploading
FileUpload ==
    \E files \in 1..(MaxUploads - Uploaded) :
        /\ open
        /\ ~ isUploading
        /\ isUploading' = TRUE
        /\ uploading' = [files |-> files, uploadedDocs |-> <<>>,
                         categoryToUse |-> IF selectedCategory # "all"
                                           THEN selectedCategory ELSE ""]
        /\ UNCHANGED <<open, multiSelect, selectedCategory, searchQuery,
                       selectedDocuments, warehouse, documents, onSelectCalls,
                       lastSelected>>
        /\ UNCHANGED <<wizardVars, indexVars>>

\* uploadDocument(file, categoryToUse) resolves with the row it stored
FileStored ==
    /\ uploading # NULL
    /\ uploading.files > 0
    /\ LET result == [id |-> Cardinality(warehouse) + 1,
                      filename |-> <<"m", "a", "p">>,
                      document_type |-> uploading.categoryToUse]
       IN /\ warehouse' = warehouse \cup {result}
          /\ uploading' = [uploading EXCEPT
                              !.files = @ - 1,
                              !.uploadedDocs = Append(@, result)]
    /\ UNCHANGED <<open, multiSelect, selectedCategory, searchQuery,
                   selectedDocuments, isUploading, documents, onSelectCalls,
                   lastSelected>>
    /\ UNCHANGED <<wizardVars, indexVars>>

\* uploadDocument rejects: catch, then finally
UploadFails ==
    /\ uploading # NULL
    /\ uploading.files > 0
    /\ isUploading' = FALSE
    /\ uploading' = NULL
    /\ UNCHANGED <<open, multiSelect, selectedCategory, searchQuery,
                   selectedDocuments, warehouse, documents, onSelectCalls,
                   lastSelected>>
    /\ UNCHANGED <<wizardVars, indexVars>>

\* the rest of handleFileUpload: the list is refreshed (the query is
\* refetched only while it is enabled), the uploaded documents are selected
UploadFinished ==
    /\ uploading # NULL
    /\ uploading.files = 0
    /\ documents' = IF open THEN warehouse ELSE documents
    /\ selectedDocuments' = AutoSelected(selectedDocuments, uploading.uploadedDocs)
    /\ isUploading' = FALSE
    /\ uploading' = NULL
    /\ UNCHANGED <<open, multiSelect, selectedCategory, searchQuery, warehouse,
                   onSelectCalls, lastSelected>>
    /\ UNCHANGED <<wizardVars, indexVars>>

\* the picker is rendered by its parent, with either value of multiSelect
InitPicker ==
    /\ WizardNotStarted
    /\ LandingPageLoading
    /\ \E multi \in BOOLEAN : PickerClosed(multi)

NextPicker ==
    \/ OpenPicker
    \/ DocumentsFetched
    \/ SelectCategory
    \/ Search
    \/ DocumentToggle
    \/ Confirm
    \/ Close
    \/ FileUpload
    \/ FileStored
    \/ UploadFails
    \/ UploadFinished

SpecPicker == InitPicker /\ [][NextPicker]_vars

----------------------------------------------------------------------------
(* Properties *)

\* every breakdown the step holds or has handed out
Breakdowns ==
    (IF calculatedFees # NULL THEN {calculatedFees} ELSE {})
    \cup (IF data.calculatedFees # NULL
          THEN {data.calculatedFees, data.fee_breakdown} ELSE {})
    \cup (IF lastPayload # NULL
          THEN {lastPayload.calculatedFees, lastPayload.fee_breakdown} ELSE {})

\* a step in which a lookup of the mounted instance came back
LookupReturned(c) ==
    /\ c \in inflight
    /\ c \notin inflight'
    /\ IsCurrent(c)
    /\ mounted'

\* the calls of calculateFeesWithSupabase made in this step
StartedCalls == {c \in inflight' \ inflight : c.current}

\* a step in which handleCalculateFees stored and emitted a breakdown
CalculationStored == onChangeTick' # onChangeTick /\ inflight' # inflight

\* a step in which the permit-type effect recalculated
EffectRecalculated == onChangeTick' # onChangeTick /\ inflight' = inflight

\* the permit types that name the Environmental Permit category, in any
\* letter case, written out
EnvironmentalNames == {str_environmental, str_Environmental}

NamesEnvironmentalPermit(d) ==
    \/ d.permit_type \in EnvironmentalNames
    \/ d.permit_type_id = "1655df4b-bfcf-47de-85fa-c4567c749362"

\* C1: in every breakdown the fee step stores or emits, after a calculation
\* and after any later permit-type changes, totalFee equals
\* administrationFee + compositeFee.
C1_TotalIsSum ==
    \A b \in Breakdowns : b.totalFee = b.administrationFee + b.compositeFee

\* C1 witness: a calculation followed by a permit-type change left a breakdown
\* with the composite fee in it
C1_Witness ==
    /\ mounted /\ hasCalculatedOnce /\ calculatedFees # NULL
    /\ lastPayload = RecalculatePayload(afterCalculation.fees, TRUE)
    /\ calculatedFees.compositeFee = 200000
    /\ calculatedFees.administrationFee > 0
    /\ data.calculatedFees = calculatedFees

\* C2: every computed breakdown has compositeFee exactly 2000 kina when the
\* permit the computation saw is the Environmental category and exactly 0
\* otherwise, whatever the annual fee, the administration fee and the
\* processing days; no other compositeFee value is ever produced.
C2_CompositeFeeFlat ==
    [][ /\ \A b \in Breakdowns' : b.compositeFee \in {0, 2000 * 100}
        /\ CalculationStored =>
             \A c \in inflight \ inflight' :
                lastPayload'.calculatedFees.compositeFee =
                    IF c.isEnvironmentalPermit THEN 2000 * 100 ELSE 0
        /\ EffectRecalculated =>
             calculatedFees'.compositeFee =
                 IF IsEnvironmentalPermit(data') THEN 2000 * 100 ELSE 0 ]_vars

\* C2 witness: an Environmental breakdown with the longest processing time and
\* a non-Environmental one with a zero administration fee both occur
C2_Witness ==
    /\ calculatedFees # NULL /\ hasCalculatedOnce
    /\ calculatedFees.compositeFee = 200000
    /\ calculatedFees.processingDays = 90
    /\ calculatedFees.administrationFee = 900000
    /\ IsEnvironmentalPermit(data)

\* C3: the composite fee applies when the permit type names the Environmental
\* Permit category in any letter case, or when the permit type id is the
\* designated identifier, each alone being enough, and does not apply when
\* neither matches.
C3_EnvironmentalByNameOrId ==
    [][ /\ \A c \in StartedCalls :
              c.isEnvironmentalPermit = NamesEnvironmentalPermit(data)
        /\ EffectRecalculated =>
              (calculatedFees'.compositeFee # 0) = NamesEnvironmentalPermit(data') ]_vars

\* C3 witness: the effect applied the composite fee for a permit matched by its
\* capitalised name only
C3_Witness ==
    /\ mounted /\ hasCalculatedOnce /\ calculatedFees # NULL
    /\ ~ Has(lastPayload, "administration_fee")
    /\ data.permit_type = str_Environmental
    /\ data.permit_type_id = ""
    /\ calculatedFees.compositeFee = 200000
    /\ afterCalculation.fees.compositeFee = 0

\* C4: re-toggling the permit type never accumulates composite fee: after a
\* calculation compositeFee is 0 or 2000 kina whatever the permit-type
\* changes, and once the permit type is again what it was right after the
\* calculation, compositeFee and totalFee are what they were then.
C4_ToggleRestores ==
    (mounted /\ hasCalculatedOnce /\ calculatedFees # NULL /\ afterCalculation # NULL) =>
        /\ calculatedFees.compositeFee \in {0, 2000 * 100}
        /\ IsEnvironmentalPermit(data) = afterCalculation.isEnvironmentalPermit =>
              /\ calculatedFees.compositeFee = afterCalculation.fees.compositeFee
              /\ calculatedFees.totalFee = afterCalculation.fees.totalFee

\* C5: validation runs before any lookup: a lookup is only ever started for a
\* draft with an activity level, and a call that fails validation stores the
\* validator's errors (naming the activity level when it is empty), starts no
\* lookup, stores no breakdown and does not call onChange.
C5_ValidationBeforeLookup ==
    [][ /\ StartedCalls # {} => data.activity_level # ""
        /\ (validationErrors' # <<>> /\ validationErrors' # validationErrors) =>
              /\ data.activity_level = "" =>
                    \E i \in 1..Len(validationErrors') :
                        validationErrors'[i] = "Activity level is required"
              /\ UNCHANGED <<inflight, loading, calculatedFees, data,
                             onChangeTick, lastPayload>> ]_vars

\* C5 witness: handleCalculateFees was called with an empty activity level and
\* was rejected
C5_Witness ==
    /\ mounted
    /\ data.activity_level = ""
    /\ validationErrors = <<"Activity level is required">>
    /\ inflight = {} /\ lastPayload = NULL /\ ~ loading
    /\ calculatedFees = NULL

C7_EmptyCategoriesRejected ==
    [][ (data.activity_category = "" /\ data.activity_subcategory = "") =>
            /\ StartedCalls = {}
            /\ (~ mounted /\ mounted') =>
                  (validationErrors' # <<>> /\ calculatedFees' = NULL) ]_vars

\* the fields of a complete breakdown
CompleteBreakdown(b) ==
    {"administrationFee", "compositeFee", "totalFee", "processingDays", "source"}
        \subseteq DOMAIN b

\* C8: every calculation that passed validation ends either with a complete
\* breakdown stored and emitted, or with an explicit error, never with neither
\* and never with both.
C8_BreakdownOrError ==
    [][ \A c \in inflight : LookupReturned(c) =>
          LET stored == /\ onChangeTick' # onChangeTick
                        /\ CompleteBreakdown(calculatedFees')
                        /\ lastPayload'.calculatedFees = calculatedFees'
              failed == calculationError' # ""
          IN (stored \/ failed) /\ ~ (stored /\ failed) ]_vars

\* C9: a failure of the lookup is not fatal: whenever a lookup comes back, the
\* step holds a breakdown marked Database or Default and shows no error.
C9_LookupFailureDegrades ==
    [][ \A c \in inflight : LookupReturned(c) =>
          /\ calculationError' = ""
          /\ CompleteBreakdown(calculatedFees')
          /\ calculatedFees'.source \in {"Database", "Default"} ]_vars

\* C10: processingDays depends on the activity level of the draft alone,
\* whether the lookup hit or missed: 30 for "2.1", 60 for "2.2", "2.3" and
\* "2.4", 90 for "3" and one fixed positive default for every other level;
\* no breakdown has processingDays zero or negative.
C10_ProcessingDaysByLevel ==
    [][ /\ \A c \in StartedCalls :
              c.params.activityLevel = data.activity_level
        /\ CalculationStored =>
              \A c \in inflight \ inflight' :
                 LET level == c.params.activityLevel
                     days == lastPayload'.calculatedFees.processingDays
                 IN /\ lastPayload'.processing_days = days
                    /\ level = "2.1" => days = 30
                    /\ level \in {"2.2", "2.3", "2.4"} => days = 60
                    /\ level = "3" => days = 90
                    /\ level \notin {"2.1", "2.2", "2.3", "2.4", "3"} =>
                          days = DefaultProcessingDays
        /\ \A b \in Breakdowns' : b.processingDays > 0 ]_vars

\* C10 witness: a lookup that missed both records stored 60 days for level 2.4
C10_Witness ==
    /\ mounted /\ hasCalculatedOnce /\ calculatedFees # NULL
    /\ data.activity_level = "2.4"
    /\ calculatedFees.source = "Default"
    /\ calculatedFees.processingDays = 60
    /\ data.processing_days = 60

\* is r the quotient x / y rounded half-up to a whole number
RoundsHalfUp(r, x, y) ==
    /\ 2 * y * r <= 2 * x + y
    /\ 2 * x + y < 2 * y * (r + 1)

\* the statutory processing times
StatutoryDays == {30, 60, 90}

C12_EndToEndScenarios ==
    [][ (CalculationStored /\ lastLookup'.schedule.annualRecurrentFee = 36500) =>
          LET request == lastLookup'
              b == lastPayload'.calculatedFees
          IN /\ (request.params.activityLevel = "2.1"
                    /\ ~ request.isEnvironmentalPermit) =>
                  /\ b.processingDays = 30 /\ lastPayload'.processing_days = 30
                  /\ b.administrationFee = 300000
                  /\ lastPayload'.administration_fee = 300000
                  /\ b.compositeFee = 0 /\ lastPayload'.composite_fee = 0
                  /\ b.totalFee = 300000 /\ lastPayload'.total_fee = 300000
             /\ (request.params.activityLevel = "3"
                    /\ request.isEnvironmentalPermit) =>
                  /\ b.processingDays = 90 /\ lastPayload'.processing_days = 90
                  /\ b.administrationFee = 900000
                  /\ lastPayload'.administration_fee = 900000
                  /\ b.compositeFee = 200000 /\ lastPayload'.composite_fee = 200000
                  /\ b.totalFee = 1100000 /\ lastPayload'.total_fee = 1100000 ]_vars

\* C12 witness: the level 3, Environmental scenario was calculated and handed
\* to the parent
C12_Witness ==
    /\ lastLookup # NULL
    /\ lastLookup.schedule.annualRecurrentFee = 36500
    /\ lastLookup.params.activityLevel = "3"
    /\ lastLookup.isEnvironmentalPermit
    /\ lastPayload = lastLookup.payload
    /\ data.total_fee = 1100000

\* C13: the schedule comes from the record keyed by the prescribed activity
\* when that lookup finds one, else from the record keyed by activity level
\* and category, else from the built-in default; source is Database exactly
\* when one of the two lookups found a record and Default exactly when both
\* missed, a breakdown is produced in both cases, and fee_source handed to the
\* parent is the breakdown's source.
C13_SourceTellsLookupFromDefault ==
    [][ CalculationStored =>
          LET found == lastLookup'.found
              schedule == lastLookup'.schedule
              b == lastPayload'.calculatedFees
              hit == found.byPrescribedActivity # -1 \/ found.byActivityLevel # -1
          IN /\ found.byPrescribedActivity # -1 =>
                    schedule.annualRecurrentFee = found.byPrescribedActivity
             /\ (found.byPrescribedActivity = -1 /\ found.byActivityLevel # -1) =>
                    schedule.annualRecurrentFee = found.byActivityLevel
             /\ ~ hit => schedule.annualRecurrentFee = DefaultAnnualRecurrentFee
             /\ b.source = (IF hit THEN "Database" ELSE "Default")
             /\ b.source = schedule.source
             /\ CompleteBreakdown(b)
             /\ lastPayload'.fee_source = b.source
             /\ data'.fee_source = b.source ]_vars

\* C13 witness: both lookups missed for a request that names a prescribed
\* activity, and the breakdown handed to the parent is marked Default
C13_Witness ==
    /\ lastLookup # NULL
    /\ lastLookup.params.prescribedActivityId # ""
    /\ lastLookup.found.byPrescribedActivity = -1
    /\ lastLookup.found.byActivityLevel = -1
    /\ data.fee_source = "Default"
    /\ data.calculatedFees.source = "Default"
    /\ data.administration_fee > 0

EmittedAmounts ==
    IF lastPayload = NULL THEN {}
    ELSE {data.composite_fee, data.total_fee, data.fee_amount}
         \cup (IF Has(data, "administration_fee") THEN {data.administration_fee}
               ELSE {})

\* C15: no negative fee is ever produced: administrationFee, compositeFee and
\* totalFee are >= 0 in every breakdown the step stores or emits, and so is
\* every amount handed to the parent, also after permit-type changes.
C15_NoNegativeFee ==
    /\ \A b \in Breakdowns :
          b.administrationFee >= 0 /\ b.compositeFee >= 0 /\ b.totalFee >= 0
    /\ \A amount \in EmittedAmounts : amount >= 0

\* C15 witness: a breakdown computed without the composite fee for a small
\* administration fee was recalculated when the permit type changed
C15_Witness ==
    /\ mounted /\ hasCalculatedOnce /\ calculatedFees # NULL
    /\ afterCalculation # NULL
    /\ afterCalculation.fees.compositeFee = 0
    /\ afterCalculation.isEnvironmentalPermit
    /\ calculatedFees.administrationFee < 200000
    /\ ~ IsEnvironmentalPermit(data)
    /\ lastPayload = RecalculatePayload(afterCalculation.fees, FALSE)
    /\ calculatedFees.totalFee = calculatedFees.administrationFee

\* C16: the review step never reports "Ready for Submission" for a draft that
\* has no calculated fee breakdown (its fee computation failed or never ran).
C16_NotReadyWithoutFees ==
    SubmissionStatus(data, entityInfo) = "Ready for Submission" =>
        data.calculatedFees # NULL

\* the composite fee that goes with the permit type of draft d
CompositeFeeFor(d) == IF IsEnvironmentalPermit(d) THEN 2000 * 100 ELSE 0

\* C17: no stale composite fee is exposed: once the lookup of the mounted step
\* has completed, the breakdown it stores and the one it handed to the draft
\* carry the composite fee and the total of the permit type now selected, also
\* when the permit type changed while the lookup was in flight.
C17_NoStaleCompositeFee ==
    (mounted /\ hasCalculatedOnce /\ inflight = {} /\ calculatedFees # NULL) =>
        /\ calculatedFees.compositeFee = CompositeFeeFor(data)
        /\ calculatedFees.totalFee =
               calculatedFees.administrationFee + CompositeFeeFor(data)
        /\ data.calculatedFees.compositeFee = CompositeFeeFor(data)
        /\ data.composite_fee = CompositeFeeFor(data)

\* C18: whenever the mounted step displays a breakdown, computed in this mount
\* or restored from the draft, a change of the permit type to or from
\* Environmental leaves compositeFee and totalFee matching the new type.
C18_RecalculatedOnPermitChange ==
    [][ (/\ mounted /\ mounted'
         /\ calculatedFees # NULL
         /\ IsEnvironmentalPermit(data') # IsEnvironmentalPermit(data)) =>
            /\ calculatedFees' # NULL
            /\ calculatedFees'.compositeFee = CompositeFeeFor(data')
            /\ calculatedFees'.totalFee =
                   calculatedFees'.administrationFee + CompositeFeeFor(data') ]_vars

\* C19: the lookup is started only by the step that mounts, one call per
\* mount, and only on a draft that has an activity level, a category or a
\* sub-category and no cached breakdown, while nothing is loading; no other
\* step, and so no later change of the draft, starts a lookup.
C19_AutoCalculateOnce ==
    [][ StartedCalls # {} =>
          /\ ~ mounted /\ mounted'
          /\ Cardinality(StartedCalls) = 1
          /\ data.activity_level # ""
          /\ (data.activity_category # "" \/ data.activity_subcategory # "")
          /\ data.calculatedFees = NULL
          /\ ~ loading ]_vars

\* C19 witness: the one lookup of the mounted step has failed and the permit
\* type has been set; the draft still meets the mount effect's conditions and
\* no lookup is pending
C19_Witness ==
    /\ mounted /\ inflight = {} /\ ~ loading
    /\ calculationError # ""
    /\ data.activity_level # "" /\ data.activity_category # ""
    /\ data.calculatedFees = NULL /\ ~ hasCalculatedOnce
    /\ data.permit_type = str_Environmental

C21_PermitChangeFrame ==
    [][ EffectRecalculated =>
          /\ \A f \in (DOMAIN calculatedFees) \ {"compositeFee", "totalFee"} :
                calculatedFees'[f] = calculatedFees[f]
          /\ DOMAIN calculatedFees' = DOMAIN calculatedFees
          /\ \A f \in {"administrationFee", "processingDays", "source",
                        "administrationForm", "technicalForm"} :
                /\ f \in DOMAIN calculatedFees'
                /\ lastPayload'.calculatedFees[f] = calculatedFees[f]
          /\ DOMAIN lastPayload' = {"composite_fee", "total_fee", "fee_amount",
                                    "calculatedFees", "fee_breakdown"}
          /\ \A k \in (DOMAIN data) \ (DOMAIN lastPayload' \cup {"permit_type", "permit_type_id"}) :
                data'[k] = data[k] ]_vars

\* C21 witness: the effect has replaced a breakdown that carried the composite
\* fee by one without it, for a schedule found in the system of record
C21_Witness ==
    /\ mounted /\ hasCalculatedOnce /\ calculatedFees # NULL
    /\ afterCalculation # NULL
    /\ afterCalculation.fees.compositeFee = 200000
    /\ lastPayload = RecalculatePayload(afterCalculation.fees, FALSE)
    /\ calculatedFees.compositeFee = 0
    /\ calculatedFees.source = "Database"
    /\ calculatedFees.administrationFee = 900000

Stamped(d, flag, stamp) ==
    (Field(d, flag, FALSE) = TRUE) <=> (Field(d, stamp, NULL) # NULL)

\* was this step a change of the declaration `flag`
DeclarationChanged(flag) ==
    onChangeTick' # onChangeTick /\ flag \in DOMAIN lastPayload'

\* C23: after any sequence of ticking and unticking the two declarations,
\* legal_declaration_accepted_at is non-null exactly when
\* legal_declaration_accepted is true, and compliance_commitment_accepted_at
\* exactly when compliance_commitment is true; changing one declaration
\* leaves the flag and the timestamp of the other unchanged.
C23_DeclarationsStamped ==
    [][ /\ Stamped(data', "legal_declaration_accepted",
                   "legal_declaration_accepted_at")
        /\ Stamped(data', "compliance_commitment",
                   "compliance_commitment_accepted_at")
        /\ DeclarationChanged("legal_declaration_accepted") =>
              \A k \in {"compliance_commitment", "compliance_commitment_accepted_at"} :
                 /\ (k \in DOMAIN data') = (k \in DOMAIN data)
                 /\ k \in DOMAIN data => data'[k] = data[k]
        /\ DeclarationChanged("compliance_commitment") =>
              \A k \in {"legal_declaration_accepted", "legal_declaration_accepted_at"} :
                 /\ (k \in DOMAIN data') = (k \in DOMAIN data)
                 /\ k \in DOMAIN data => data'[k] = data[k] ]_vars

\* C23 witness: the legal declaration is ticked and stamped, the compliance
\* commitment was unticked and has no timestamp
C23_Witness ==
    /\ Field(data, "legal_declaration_accepted", FALSE) = TRUE
    /\ Field(data, "legal_declaration_accepted_at", NULL) # NULL
    /\ Has(data, "compliance_commitment")
    /\ data.compliance_commitment = FALSE
    /\ data.compliance_commitment_accepted_at = NULL

\* the activity levels for which checkMandatoryFields asks for the consultation
ConsultationLevels == {"Level 2", "Level 3"}

\* every mandatory value of the draft and of the entity is there, written out
EverythingProvided(d, info) ==
    /\ Field(d, "applicationTitle", "") # ""
    /\ (Field(d, "entity_name", "") # "" \/ Field(d, "organizationName", "") # "")
    /\ info # NULL
    /\ (info.email # "" \/ info.contact_person_email # "")
    /\ (info.phone # "" \/ info.contact_person_phone # 0)
    /\ d.activity_level # ""
    /\ d.permit_type \notin {Undefined, <<>>}
    /\ Field(d, "projectDescription", "") # ""
    /\ Field(d, "projectStartDate", "") # ""
    /\ Field(d, "projectLocation", "") # ""
    /\ (Len(Field(d, "uploadedFiles", <<>>)) > 0
         \/ (\E i \in DOMAIN Field(d, "document_uploads", <<>>) :
                d.document_uploads[i] # "")
         \/ Len(Field(d, "public_consultation_proof", <<>>)) > 0)
    /\ d.activity_level \in ConsultationLevels =>
          /\ Field(d, "consultation_period_start", "") # ""
          /\ Field(d, "consultation_period_end", "") # ""
          /\ Len(Field(d, "public_consultation_proof", <<>>)) > 0

\* C24: the review step reports "Ready for Submission" if and only if every
\* mandatory field of every section has a truthy value (an attached document
\* and the entity's email and phone included) and both declarations are
\* accepted; otherwise it reports "Application Incomplete".
C24_ReadyIffComplete ==
    LET status == SubmissionStatus(data, entityInfo)
        complete == /\ EverythingProvided(data, entityInfo)
                    /\ Field(data, "legal_declaration_accepted", FALSE) = TRUE
                    /\ Field(data, "compliance_commitment", FALSE) = TRUE
    IN /\ status \in {"Ready for Submission", "Application Incomplete"}
       /\ (status = "Ready for Submission") <=> complete

\* C24 witness: a Level 2 application with its consultation, the entity
\* reached through its contact person and both declarations is ready
C24_Witness ==
    /\ SubmissionStatus(data, entityInfo) = "Ready for Submission"
    /\ data.activity_level = "Level 2"
    /\ entityInfo # NULL /\ entityInfo.email = ""
    /\ data.legal_declaration_accepted /\ data.compliance_commitment

\* C25: public consultation is required for Level 2 and Level 3 activities,
\* the levels "2.1", "2.2", "2.3", "2.4" and "3" of the processing-day table
\* included: an application of such a level is not ready for submission
\* without the consultation start date, end date and proof documents.
C25_ConsultationRequired ==
    (/\ data.activity_level \in {"Level 2", "Level 3", "2.1", "2.2", "2.3", "2.4", "3"}
     /\ SubmissionStatus(data, entityInfo) = "Ready for Submission") =>
        /\ Field(data, "consultation_period_start", "") # ""
        /\ Field(data, "consultation_period_end", "") # ""
        /\ Len(Field(data, "public_consultation_proof", <<>>)) > 0

\* the route the claim gives for a profile, as a table
ExpectedRoute(p) ==
    LET management == p.staff_position \in {"manager", "director", "managing_director"}
    IN CASE p.user_type \in {"admin", "super_admin"} -> "/admin"
         [] p.user_type = "public" -> "/dashboard"
         [] p.user_type = "staff" /\ p.staff_unit = "compliance" /\ management -> "/ComplianceDashboard"
         [] p.user_type = "staff" /\ p.staff_unit = "compliance" /\ ~ management -> "/compliance"
         [] p.user_type = "staff" /\ p.staff_unit = "registry" /\ management -> "/RegistryDashboard"
         [] p.user_type = "staff" /\ p.staff_unit = "registry" /\ ~ management -> "/registry"
         [] p.user_type = "staff" /\ p.staff_unit = "revenue" /\ management -> "/RevenueDashboard"
         [] p.user_type = "staff" /\ p.staff_unit = "revenue" /\ ~ management -> "/revenue"
         [] p.user_type = "staff" /\ p.staff_unit = "finance" /\ management -> "/FinanceDashboard"
         [] p.user_type = "staff" /\ p.staff_unit = "finance" /\ ~ management -> "/finance"
         [] p.user_type = "staff" /\ p.staff_unit = "directorate" -> "/directorate"
         [] OTHER -> "/unauthorized"

\* C26: the landing page redirects every authenticated user: whenever the
\* page is rendered with loading false and a profile, it navigates to exactly
\* one route, the one the table gives for (user_type, staff_unit,
\* staff_position); while loading or without a profile the redirect effect
\* navigates nowhere.
C26_RedirectsToDashboard ==
    [][ LET rendered == location = "/" \/ VisitIndex
            before == IF location = "/" THEN navigated ELSE <<>>
        IN rendered =>
             IF ~ authLoading' /\ profile' # NULL
             THEN /\ navigated' = Append(before, ExpectedRoute(profile'))
                  /\ Len(navigated') = 1
                  /\ location' = ExpectedRoute(profile')
             ELSE /\ navigated' = <<>>
                  /\ location' \in {"/", "/auth", "/auth?tab=signup"} ]_vars

\* C26 witness: a director of the compliance unit has been sent to the
\* unit's dashboard
C26_Witness ==
    /\ ~ authLoading
    /\ profile # NULL
    /\ profile.user_type = "staff"
    /\ profile.staff_unit = "compliance"
    /\ profile.staff_position = "director"
    /\ navigated = <<"/ComplianceDashboard">>
    /\ location = "/ComplianceDashboard"

\* no id occurs twice in a list of documents
NoDuplicateIds(docs) ==
    \A i, j \in DOMAIN docs : docs[i].id = docs[j].id => i = j

\* C27: in multi-select mode toggling a document adds it if absent and
\* removes it if present, so toggling it twice restores the selection, and
\* the selection holds no duplicate ids; in single-select mode the selection
\* never holds more than one document, whatever toggles and uploads came
\* before; changing the category or the search filter leaves the selection
\* as it was.
C27_Selection ==
    [][ /\ \A doc \in FilteredDocuments :
             (multiSelect /\ open /\ HandleDocumentToggle(doc)) =>
                /\ Ids(selectedDocuments') =
                      IF doc.id \in Ids(selectedDocuments)
                      THEN Ids(selectedDocuments) \ {doc.id}
                      ELSE Ids(selectedDocuments) \cup {doc.id}
                /\ Ids(ToggledDocuments(selectedDocuments', doc)) =
                      Ids(selectedDocuments)
        /\ multiSelect' => NoDuplicateIds(selectedDocuments')
        /\ ~ multiSelect' => Len(selectedDocuments') <= 1
        /\ (selectedCategory' # selectedCategory \/ searchQuery' # searchQuery) =>
              selectedDocuments' = selectedDocuments ]_vars

\* C28: Confirm calls onSelect exactly once, with the current selection, and
\* Cancel/close never calls it; after either the dialog is closed and the
\* selection is empty, and the selection is still empty when the dialog is
\* next opened, also when an upload started before the dialog was closed
\* completes after it.
C28_ClosedMeansCleared ==
    [][ /\ Confirm => /\ onSelectCalls' = onSelectCalls + 1
                      /\ lastSelected' = selectedDocuments
                      /\ ~ open' /\ selectedDocuments' = <<>>
        /\ Close => /\ onSelectCalls' = onSelectCalls
                    /\ lastSelected' = lastSelected
                    /\ ~ open' /\ selectedDocuments' = <<>>
        /\ (~ open /\ open') => selectedDocuments' = <<>> ]_vars

====
